---- MODULE Spec2Model ----
(***************************************************************************)
(* A model of enhance-article.py: the script that reads article.json,      *)
(* merges the static per-section table SECTION_METADATA into each section, *)
(* wraps the result in a fixed envelope and overwrites article.json.       *)
(*                                                                         *)
(* Python dicts are functions with a domain of strings (key order is not   *)
(* modelled: dict equality ignores it).  Lists are sequences.              *)
(***************************************************************************)
EXTENDS Integers, Sequences, FiniteSets, TLC

(***************************************************************************)
(* The static table, lines 13-198, entry by entry.                         *)
(***************************************************************************)
META_visual_abstract ==
    [ estimatedReadingTime |-> 5,
      tags |-> <<"overview", "introduction", "conceptual">>,
      type |-> "visual-abstract" ]

META_executive_summaries ==
    [estimatedReadingTime |-> 10, tags |-> <<"summary", "overview", "accessible">>]

META_reading_guide ==
    [estimatedReadingTime |-> 5, tags |-> <<"navigation", "guide", "overview">>]

META_glossary ==
    [ estimatedReadingTime |-> 15,
      tags |-> <<"reference", "definitions", "terminology">>,
      type |-> "glossary" ]

META_chapter_1 ==
    [ chapterNumber |-> 1,
      partNumber |-> 1,
      estimatedReadingTime |-> 25,
      tags |-> <<"foundations", "philosophy", "examples", "introduction">>,
      keyTakeaways |-> << "Persistence asks 'what prevents things from continuing' rather than 'why does order emerge'",
                          "Stable configurations naturally outlast unstable ones",
                          "The universe edits instability rather than constructs complexity",
                          "The persistence principle appears in everyday phenomena" >> ]

META_chapter_2 ==
    [ chapterNumber |-> 2,
      partNumber |-> 1,
      estimatedReadingTime |-> 30,
      tags |-> <<"physics", "quantum mechanics", "metaphor", "critical analysis">>,
      keyTakeaways |-> << "Real interference requires Hilbert space, superposition, and phase coherence",
                          "Most metaphorical uses of 'interference' lack mathematical rigor",
                          "Brain waves are legitimate waves; market 'interference' is just competition" >>,
      references |-> << [ id |-> "feynman-2006",
                          number |-> 1,
                          text |-> "Feynman, R. P. (2006). QED: The Strange Theory of Light and Matter. Princeton University Press." ] >> ]

META_chapter_3 ==
    [ chapterNumber |-> 3,
      partNumber |-> 2,
      estimatedReadingTime |-> 35,
      tags |-> <<"theory", "axioms", "principles", "analogies">>,
      keyTakeaways |-> << "Conservation laws ensure substrate persistence",
                          "Differential persistence: stable things last longer",
                          "Persistence is a passive property, not an active force" >> ]

META_chapter_4 ==
    [ chapterNumber |-> 4,
      partNumber |-> 2,
      estimatedReadingTime |-> 30,
      tags |-> <<"worldview", "philosophy", "comparison", "paradigm shift">>,
      keyTakeaways |-> << "Construction view asks 'why does order emerge?'",
                          "Persistence view asks 'what prevents continuation?'",
                          "Similar to Copernican and Darwinian revolutions" >> ]

META_chapter_5 ==
    [ chapterNumber |-> 5,
      partNumber |-> 3,
      estimatedReadingTime |-> 35,
      tags |-> <<"AI", "deep learning", "neural networks", "machine learning">>,
      keyTakeaways |-> << "Loss landscapes have large connected basins (mode connectivity)",
                          "Training doesn't construct solutions, it finds persistent states",
                          "AI safety is about attractor engineering" >>,
      references |-> << [ id |-> "garipov-2018",
                          number |-> 1,
                          text |-> "Garipov, T., et al. (2018). Loss surfaces, mode connectivity, and fast ensembling of DNNs." ],
                        [ id |-> "li-2018",
                          number |-> 2,
                          text |-> "Li, H., et al. (2018). Visualizing the Loss Landscape of Neural Nets." ] >> ]

META_chapter_6 ==
    [ chapterNumber |-> 6,
      partNumber |-> 3,
      estimatedReadingTime |-> 25,
      tags |-> <<"evolution", "biology", "LTEE", "natural selection">>,
      keyTakeaways |-> << "Evolution is persistence in action: stable forms survive",
                          "LTEE shows power-law fitness improvements",
                          "Life origin: What stops self-sustaining reactions from continuing?" >>,
      references |-> << [ id |-> "lenski-2023",
                          number |-> 1,
                          text |-> "Lenski, R. E. (2023). The E. coli Long-Term Evolution Experiment." ] >> ]

META_chapter_7 ==
    [ chapterNumber |-> 7,
      partNumber |-> 3,
      estimatedReadingTime |-> 25,
      tags |-> <<"cosmology", "physics", "anthropic principle", "dark matter">>,
      keyTakeaways |-> << "Anthropic principle is survivor bias on cosmic scale",
                          "Fine-tuning problem dissolves: we observe persistent configurations",
                          "Simpler models (classical dark matter) likely more persistent" >>,
      references |-> << [ id |-> "hui-2021",
                          number |-> 1,
                          text |-> "Hui, L. (2021). Wave Dark Matter. Annual Review of Astronomy and Astrophysics." ] >> ]

META_chapter_8 ==
    [ chapterNumber |-> 8,
      partNumber |-> 4,
      estimatedReadingTime |-> 30,
      tags |-> <<"critique", "physics envy", "pseudoscience", "methodology">>,
      keyTakeaways |-> << "Physics envy: inappropriate importation of physics concepts",
                          "Quantum mind fails: brain too warm and wet for quantum effects",
                          "Economic 'quantum' models lack predictive power" >> ]

META_chapter_9 ==
    [ chapterNumber |-> 9,
      partNumber |-> 4,
      estimatedReadingTime |-> 40,
      tags |-> <<"FAQ", "objections", "defense", "philosophy of science">>,
      keyTakeaways |-> << "Semantics matter: words guide research programs",
                          "Persistence unifies attractor dynamics, SOC, natural selection",
                          "Conservation laws may be more fundamental than Schrödinger equation" >> ]

META_chapter_10 ==
    [ chapterNumber |-> 10,
      partNumber |-> 5,
      estimatedReadingTime |-> 25,
      tags |-> <<"toolkit", "practical", "application", "methodology">>,
      keyTakeaways |-> << "Identify what persists, transformation operators, attractors",
                          "To change a state: make it less persistent or create deeper attractor",
                          "Avoid confusing persistence with desirability" >>,
      exercises |-> << [ id |-> "persistence-worksheet",
                         type |-> "worksheet",
                         title |-> "Persistence Analysis Worksheet",
                         difficulty |-> "orange",
                         description |-> "Apply the persistence framework to analyze a system" ] >> ]

META_chapter_11 ==
    [ chapterNumber |-> 11,
      partNumber |-> 5,
      estimatedReadingTime |-> 20,
      tags |-> <<"resources", "bibliography", "further reading">>,
      keyTakeaways |-> << "Key resources: Gleick's Chaos, Kauffman's At Home in the Universe",
                          "Interactive tools: PhET simulations, 3Blue1Brown videos",
                          "Santa Fe Institute: leading center for complexity science" >> ]

META_appendices ==
    [ estimatedReadingTime |-> 30,
      tags |-> <<"technical", "mathematics", "advanced">>,
      type |-> "appendix" ]

META_bibliography ==
    [ estimatedReadingTime |-> 20,
      tags |-> <<"references", "citations", "resources">>,
      type |-> "bibliography" ]

SECTION_METADATA ==
    ("visual-abstract" :> META_visual_abstract) @@
    ("executive-summaries" :> META_executive_summaries) @@
    ("reading-guide" :> META_reading_guide) @@
    ("glossary" :> META_glossary) @@
    ("chapter-1" :> META_chapter_1) @@
    ("chapter-2" :> META_chapter_2) @@
    ("chapter-3" :> META_chapter_3) @@
    ("chapter-4" :> META_chapter_4) @@
    ("chapter-5" :> META_chapter_5) @@
    ("chapter-6" :> META_chapter_6) @@
    ("chapter-7" :> META_chapter_7) @@
    ("chapter-8" :> META_chapter_8) @@
    ("chapter-9" :> META_chapter_9) @@
    ("chapter-10" :> META_chapter_10) @@
    ("chapter-11" :> META_chapter_11) @@
    ("appendices" :> META_appendices) @@
    ("bibliography" :> META_bibliography)

ENHANCED_VERSION == "1.0"

ENHANCED_METADATA ==
    [ authors |-> <<[name |-> "Manus AI", role |-> "Author"]>>,
      created |-> "2025-11-18T00:00:00Z",
      lastModified |-> "2025-11-18T00:00:00Z",
      keywords |-> << "persistence",
                      "complexity science",
                      "interference",
                      "evolution",
                      "artificial intelligence",
                      "cosmology",
                      "philosophy of science",
                      "differential stability",
                      "attractor dynamics",
                      "emergent systems" >>,
      description |-> "A fundamental reframing of how we understand order in the universe, proposing that stable configurations persist rather than being actively constructed through emergence.",
      language |-> "en",
      subject |-> <<"Physics", "Biology", "Computer Science", "Philosophy">> ]

ENHANCED_SETTINGS ==
    [ theme |-> "light",
      fontSize |-> "medium",
      showDifficulty |-> TRUE,
      showEstimatedTime |-> TRUE,
      enableNavigation |-> TRUE,
      enableSearch |-> TRUE ]


(***************************************************************************)
(* Bounds of the model.                                                    *)
(***************************************************************************)
\* The longest sections list of an input document.
MaxSections == 2
\* How many times the script is run on the same article.json.
MaxRuns == 2

(***************************************************************************)
(* Dicts.                                                                  *)
(***************************************************************************)
\* {}
EmptyDict == [k \in {} |-> k]

\* key in d
Has(d, k) == k \in DOMAIN d

\* d[k] = v, on a dict that is then the new value of d
Put(d, k, v) == [x \in DOMAIN d \cup {k} |-> IF x = k THEN v ELSE d[x]]

\* A JSON value that is not an object (null, a string, a number, a list): a
\* record with a key no object of the model has, so that it can stand where
\* an object is expected and be told apart from one.
JsonNull == [jsonType |-> "null"]

\* Whether item assignment v[key] = x works on v (v is a dict).
IsDict(v) == ~ Has(v, "jsonType")

(***************************************************************************)
(* json.load and json.dump.  The text of a JSON object is the sequence of  *)
(* its <<key, value>> members; the objects the script looks into (the      *)
(* document and its sections) are serialised that way, the values inside   *)
(* them are carried as they are.  Loading a text keeps, for a key that     *)
(* occurs twice, its last member.                                          *)
(***************************************************************************)
RECURSIVE KeyOrder(_)
KeyOrder(K) ==
    IF K = {} THEN <<>>
    ELSE LET k == CHOOSE x \in K : TRUE
         IN  <<k>> \o KeyOrder(K \ {k})

DumpObject(d) ==
    LET ks == KeyOrder(DOMAIN d)
    IN  [n \in 1..Len(ks) |-> <<ks[n], d[ks[n]]>>]

LoadObject(ps) ==
    [k \in {ps[n][1] : n \in 1..Len(ps)} |->
        LET last == CHOOSE n \in 1..Len(ps) :
                        /\ ps[n][1] = k
                        /\ \A m \in (n+1)..Len(ps) : ps[m][1] # k
        IN  ps[last][2]]

\* json.dump(doc, f, indent=2, ensure_ascii=False), line 273
JsonDump(doc) ==
    LET ks == KeyOrder(DOMAIN doc)
    IN  [n \in 1..Len(ks) |->
            IF ks[n] = "sections"
            THEN <<ks[n], [j \in 1..Len(doc.sections) |-> DumpObject(doc.sections[j])]>>
            ELSE <<ks[n], doc[ks[n]]>>]

\* json.load(f), line 10
JsonLoad(text) ==
    LET top == LoadObject(text)
    IN  IF Has(top, "sections")
        THEN Put(top, "sections",
                 [j \in 1..Len(top.sections) |-> LoadObject(top.sections[j])])
        ELSE top

\* The states of article.json: absent, present with text json.load rejects
\* (the empty file open(..., 'w') leaves included), or present with JSON text.
MissingFile == [exists |-> FALSE, valid |-> FALSE, text |-> <<>>]
UnparsableFile == [exists |-> TRUE, valid |-> FALSE, text |-> <<>>]
JsonFile(doc) == [exists |-> TRUE, valid |-> TRUE, text |-> JsonDump(doc)]

(***************************************************************************)
(* The merge of one table record into one section, lines 239-267.          *)
(***************************************************************************)
\* The explicit type is applied first, so that the chapter type overrides it.
SetTypeThenChapter(es, meta) ==
    LET a == IF Has(meta, "type") THEN Put(es, "type", meta.type) ELSE es
        b == IF Has(meta, "chapterNumber")
             THEN Put(Put(a, "type", "chapter"), "chapterNumber", meta.chapterNumber)
             ELSE a
    IN  IF Has(meta, "partNumber") THEN Put(b, "partNumber", meta.partNumber) ELSE b

\* lines 241-248: chapter number and type, part number, explicit type
SetChapterAndType(es, meta) ==
    LET a == IF Has(meta, "chapterNumber")
             THEN Put(Put(es, "type", "chapter"), "chapterNumber", meta.chapterNumber)
             ELSE es
        b == IF Has(meta, "partNumber") THEN Put(a, "partNumber", meta.partNumber) ELSE a
    IN  IF Has(meta, "type") THEN Put(b, "type", meta.type) ELSE b

\* The nested metadata dict is always a new one.
FreshMetadata(es) == Put(es, "metadata", EmptyDict)

\* lines 251-252: the nested metadata dict is created when the copy has none
EnsureMetadata(es) ==
    IF ~ Has(es, "metadata") THEN Put(es, "metadata", EmptyDict) ELSE es

\* The values are written with setdefault: the ones already there are kept.
WriteMetadataKeepExisting(md, meta) ==
    LET a == IF Has(md, "estimatedReadingTime") THEN md
             ELSE Put(md, "estimatedReadingTime", meta.estimatedReadingTime)
    IN  IF Has(a, "tags") THEN a ELSE Put(a, "tags", meta.tags)

\* The tags are appended to the ones already there.
WriteMetadataAppendTags(md, meta) ==
    Put(Put(md, "estimatedReadingTime", meta.estimatedReadingTime), "tags",
        IF Has(md, "tags") THEN md.tags \o meta.tags ELSE meta.tags)

\* lines 254-255: the two item assignments on the nested metadata dict
WriteMetadata(md, meta) ==
    Put(Put(md, "estimatedReadingTime", meta.estimatedReadingTime), "tags", meta.tags)

\* lines 257-267: key takeaways, references, exercises
SetLists(es, meta) ==
    LET a == IF Has(meta, "keyTakeaways") THEN Put(es, "keyTakeaways", meta.keyTakeaways) ELSE es
        b == IF Has(meta, "references") THEN Put(a, "references", meta.references) ELSE a
    IN  IF Has(meta, "exercises") THEN Put(b, "exercises", meta.exercises) ELSE b

\* Whether lines 254-255 raise: meta["estimatedReadingTime"] or meta["tags"]
\* is a KeyError when the record has no such key, and the item assignment is
\* a TypeError when the section's metadata is not a dict.
MetadataWriteRaises(es, meta) ==
    \/ ~ Has(meta, "estimatedReadingTime")
    \/ ~ IsDict(es.metadata)
    \/ ~ Has(meta, "tags")

\* lines 250-255 on the copy of a section, when they do not raise
WithMetadata(es, meta) ==
    LET a == EnsureMetadata(es)
    IN  Put(a, "metadata", WriteMetadata(a.metadata, meta))

\* lines 239-267 on the copy of a section, when they do not raise
EnhanceSection(section, meta) ==
    SetLists(WithMetadata(SetChapterAndType(section, meta), meta), meta)

\* Whether lines 235-267 raise on a section: section["id"] is a KeyError when
\* the section has no id; otherwise the merge may raise.
SectionRaises(section) ==
    \/ ~ Has(section, "id")
    \/ /\ section.id \in DOMAIN SECTION_METADATA
       /\ MetadataWriteRaises(EnsureMetadata(section), SECTION_METADATA[section.id])

\* The nested metadata dict is created before the table is looked up.
ProcessedSectionAlwaysMetadata(section) ==
    IF section.id \in DOMAIN SECTION_METADATA
    THEN EnhanceSection(section, SECTION_METADATA[section.id])
    ELSE EnsureMetadata(section)

\* lines 234-267: enhanced_section at line 269
ProcessedSection(section) ==
    IF section.id \in DOMAIN SECTION_METADATA
    THEN EnhanceSection(section, SECTION_METADATA[section.id])
    ELSE section

\* dict(section) at line 234 is a shallow copy: a metadata dict the section
\* already has is one object, reached from the section and from its copy, so
\* the item assignments of lines 254-255 show in the section as well.
SectionAfterBody(section) ==
    IF section.id \in DOMAIN SECTION_METADATA /\ Has(section, "metadata")
    THEN Put(section, "metadata", ProcessedSection(section).metadata)
    ELSE section

\* insert(0, ...) for append
PrependSection(sections, es) == <<es>> \o sections

\* line 269
AppendSection(sections, es) == Append(sections, es)

\* The envelope is laid over a copy of the document read.
EnvelopeOverCopy(doc) ==
    LET fixed == [ title |-> doc.title,
                   version |-> ENHANCED_VERSION,
                   metadata |-> ENHANCED_METADATA,
                   settings |-> ENHANCED_SETTINGS,
                   sections |-> <<>> ]
    IN  [k \in DOMAIN doc \cup DOMAIN fixed |-> IF k \in DOMAIN fixed THEN fixed[k] ELSE doc[k]]

\* lines 201-230: the envelope, before the loop
Envelope(doc) ==
    [ title |-> doc.title,
      version |-> ENHANCED_VERSION,
      metadata |-> ENHANCED_METADATA,
      settings |-> ENHANCED_SETTINGS,
      sections |-> <<>> ]

(***************************************************************************)
(* The input documents of the model.                                       *)
(***************************************************************************)
\* One id outside the table and one of each shape of table record: reading
\* time and tags only, with a type, with chapter, part, takeaways and
\* references, and with exercises.
SampleIds == {"preface", "reading-guide", "glossary", "chapter-2", "chapter-10"}

BareBody == [content |-> "text"]

\* Every field the merge may write is there already, with another value.
FullBody ==
    [ content |-> "text",
      type |-> "old-type",
      chapterNumber |-> 99,
      partNumber |-> 99,
      keyTakeaways |-> <<"old takeaway">>,
      references |-> <<[id |-> "old-ref", number |-> 9, text |-> "Old reference"]>>,
      exercises |-> <<[id |-> "old-exercise", type |-> "quiz"]>>,
      metadata |-> [estimatedReadingTime |-> 99, tags |-> <<"old">>, difficulty |-> "green"] ]

NullMetadataBody == [content |-> "text", metadata |-> JsonNull]

SectionPool ==
    {Put(b, "id", id) : b \in {BareBody, FullBody, NullMetadataBody}, id \in SampleIds}
        \cup {BareBody}

RECURSIVE SeqsUpTo(_, _)
SeqsUpTo(S, n) ==
    IF n = 0 THEN {<<>>}
    ELSE LET shorter == SeqsUpTo(S, n - 1)
         IN  shorter \cup {Append(s, x) : s \in {t \in shorter : Len(t) = n - 1}, x \in S}

Titles == {"Persistence", "Draft"}

\* Top-level fields an input document may have besides title and sections.
NoExtras == EmptyDict
OldExtras ==
    [ version |-> "0.9",
      metadata |-> [authors |-> <<[name |-> "Someone", role |-> "Editor"]>>, language |-> "pt"],
      settings |-> [theme |-> "dark"],
      author |-> "Someone" ]

InputDocs ==
    {Put(Put(x, "title", t), "sections", ss) :
        x \in {NoExtras, OldExtras}, t \in Titles, ss \in SeqsUpTo(SectionPool, MaxSections)}
        \cup {[title |-> "Persistence"], [sections |-> <<Put(BareBody, "id", "glossary")>>]}

InputFiles == {JsonFile(d) : d \in InputDocs} \cup {MissingFile, UnparsableFile}

(***************************************************************************)
(* The state.                                                              *)
(***************************************************************************)
VARIABLES
    file,       \* article.json
    pc,         \* where the run is
    article,    \* line 10
    enhanced,   \* line 201
    i,          \* the position of the loop of line 233 in article["sections"]
    run,        \* the number of the run
    inputs,     \* inputs[r]: article.json as run r found it
    loaded,     \* loaded[r]: the document run r read from it, or {}
    outputs,    \* outputs[r]: the document run r left in article.json, or {}
    mSection,   \* the merge alone: the section,
    mMeta,      \*   the table record,
    mOut,       \*   enhanced_section,
    mpc         \*   and where the merge is

runVars == <<file, pc, article, enhanced, i, run, inputs, loaded, outputs>>
mergeVars == <<mSection, mMeta, mOut, mpc>>
vars == <<file, pc, article, enhanced, i, run, inputs, loaded, outputs, mSection, mMeta, mOut, mpc>>

NoMerge ==
    /\ mSection = EmptyDict
    /\ mMeta = EmptyDict
    /\ mOut = EmptyDict
    /\ mpc = "off"

Init ==
    /\ file \in InputFiles
    /\ pc = "read"
    /\ article = EmptyDict
    /\ enhanced = EmptyDict
    /\ i = 0
    /\ run = 1
    /\ inputs = <<file>>
    /\ loaded = <<EmptyDict>>
    /\ outputs = <<EmptyDict>>
    /\ NoMerge

\* lines 9-10: open(...) raises FileNotFoundError, json.load JSONDecodeError
ReadArticle ==
    /\ pc = "read"
    /\ IF file.exists /\ file.valid
       THEN /\ article' = JsonLoad(file.text)
            /\ loaded' = [loaded EXCEPT ![run] = JsonLoad(file.text)]
            /\ pc' = "build"
       ELSE /\ pc' = "aborted"
            /\ UNCHANGED <<article, loaded>>
    /\ UNCHANGED <<file, enhanced, i, run, inputs, outputs, mergeVars>>

\* lines 201-230: article["title"] is a KeyError on a document without title
BuildEnvelope ==
    /\ pc = "build"
    /\ IF Has(article, "title")
       THEN /\ enhanced' = Envelope(article)
            /\ pc' = "for"
       ELSE /\ pc' = "aborted"
            /\ UNCHANGED enhanced
    /\ UNCHANGED <<file, article, i, run, inputs, loaded, outputs, mergeVars>>

\* line 233, entering the loop: article["sections"] is evaluated once
StartLoop ==
    /\ pc = "for"
    /\ IF Has(article, "sections")
       THEN /\ i' = 1
            /\ pc' = "loop"
       ELSE /\ pc' = "aborted"
            /\ UNCHANGED i
    /\ UNCHANGED <<file, article, enhanced, run, inputs, loaded, outputs, mergeVars>>

\* The loop stops one section short.
LoopExhaustedEarly == i >= Len(article.sections)

\* line 233: the loop has no section left
LoopExhausted == i > Len(article.sections)

\* lines 233-269: one iteration of the loop
ProcessSection ==
    /\ pc = "loop"
    /\ ~ LoopExhausted
    /\ LET section == article.sections[i]
       IN  IF SectionRaises(section)
           THEN /\ pc' = "aborted"
                /\ UNCHANGED <<article, enhanced, i>>
           ELSE /\ enhanced' = [enhanced EXCEPT !.sections =
                                    AppendSection(enhanced.sections, ProcessedSection(section))]
                /\ article' = [article EXCEPT !.sections[i] = SectionAfterBody(section)]
                /\ i' = i + 1
                /\ pc' = "loop"
    /\ UNCHANGED <<file, run, inputs, loaded, outputs, mergeVars>>

\* line 272: open(..., 'w') truncates article.json
OpenForWrite ==
    /\ pc = "loop"
    /\ LoopExhausted
    /\ file' = UnparsableFile
    /\ pc' = "dump"
    /\ UNCHANGED <<article, enhanced, i, run, inputs, loaded, outputs, mergeVars>>

\* line 273
DumpEnhanced ==
    /\ pc = "dump"
    /\ file' = JsonFile(enhanced)
    /\ outputs' = [outputs EXCEPT ![run] = JsonLoad(file'.text)]
    /\ pc' = "print"
    /\ UNCHANGED <<article, enhanced, i, run, inputs, loaded, mergeVars>>

\* lines 275-278
PrintSummary ==
    /\ pc = "print"
    /\ pc' = "done"
    /\ UNCHANGED <<file, article, enhanced, i, run, inputs, loaded, outputs, mergeVars>>

\* The script is started again, on the article.json the last run left.
RunAgain ==
    /\ pc \in {"done", "aborted"}
    /\ run < MaxRuns
    /\ run' = run + 1
    /\ pc' = "read"
    /\ article' = EmptyDict
    /\ enhanced' = EmptyDict
    /\ i' = 0
    /\ inputs' = Append(inputs, file)
    /\ loaded' = Append(loaded, EmptyDict)
    /\ outputs' = Append(outputs, EmptyDict)
    /\ UNCHANGED <<file, mergeVars>>

Next ==
    \/ ReadArticle
    \/ BuildEnvelope
    \/ StartLoop
    \/ ProcessSection
    \/ OpenForWrite
    \/ DumpEnhanced
    \/ PrintSummary
    \/ RunAgain

Spec == Init /\ [][Next]_vars

(***************************************************************************)
(* The merge of lines 239-267 alone, as a function of the section and of   *)
(* the table record: the section is any section of the pool that has an    *)
(* id, the record any record of the table or any record of the data model  *)
(* (every field optional).                                                 *)
(***************************************************************************)
Restrict(d, K) == [k \in K |-> d[k]]

AllFieldsRecord ==
    [ estimatedReadingTime |-> 12,
      tags |-> <<"sample">>,
      type |-> "sidebar",
      chapterNumber |-> 7,
      partNumber |-> 3,
      keyTakeaways |-> <<"sample takeaway">>,
      references |-> <<[id |-> "sample-ref", number |-> 1, text |-> "Sample reference"]>>,
      exercises |-> <<[id |-> "sample-exercise", type |-> "worksheet"]>> ]

DataModelRecords ==
    {Restrict(AllFieldsRecord, K \cup R) :
        K \in SUBSET {"type", "chapterNumber", "partNumber",
                      "keyTakeaways", "references", "exercises"},
        R \in {{"estimatedReadingTime", "tags"}, {"estimatedReadingTime"}, {"tags"}}}

TableRecords == {SECTION_METADATA[id] : id \in DOMAIN SECTION_METADATA}

IdleRun ==
    /\ file = MissingFile
    /\ pc = "off"
    /\ article = EmptyDict
    /\ enhanced = EmptyDict
    /\ i = 0
    /\ run = 1
    /\ inputs = <<MissingFile>>
    /\ loaded = <<EmptyDict>>
    /\ outputs = <<EmptyDict>>

InitMerge ==
    /\ IdleRun
    /\ mSection \in {s \in SectionPool : Has(s, "id")}
    /\ mMeta \in TableRecords \cup DataModelRecords
    /\ mOut = mSection
    /\ mpc = "type"

\* lines 241-248
MergeChapterAndType ==
    /\ mpc = "type"
    /\ mOut' = SetChapterAndType(mOut, mMeta)
    /\ mpc' = "metadata"
    /\ UNCHANGED <<mSection, mMeta, runVars>>

\* lines 250-255
MergeMetadata ==
    /\ mpc = "metadata"
    /\ IF MetadataWriteRaises(EnsureMetadata(mOut), mMeta)
       THEN /\ mpc' = "raised"
            /\ UNCHANGED mOut
       ELSE /\ mOut' = WithMetadata(mOut, mMeta)
            /\ mpc' = "lists"
    /\ UNCHANGED <<mSection, mMeta, runVars>>

\* lines 257-267
MergeLists ==
    /\ mpc = "lists"
    /\ mOut' = SetLists(mOut, mMeta)
    /\ mpc' = "done"
    /\ UNCHANGED <<mSection, mMeta, runVars>>

NextMerge ==
    \/ MergeChapterAndType
    \/ MergeMetadata
    \/ MergeLists

SpecMerge == InitMerge /\ [][NextMerge]_vars

(***************************************************************************)
(* What the claims speak of.                                               *)
(***************************************************************************)
\* The document run r read from article.json.
InputDoc(r) == loaded[r]

\* Run r left a document in article.json.
Completed(r) == outputs[r] # EmptyDict

\* The runs so far that left a document.
CompletedRuns == {r \in 1..run : Completed(r)}

InTable(section) == section.id \in DOMAIN SECTION_METADATA

OverwrittenFields ==
    {"type", "chapterNumber", "partNumber", "metadata", "keyTakeaways", "references", "exercises"}

\* C1: for every input section whose id is in the table, the output section
\* at the same position has metadata.estimatedReadingTime and metadata.tags
\* of the table record, and each of chapterNumber, partNumber, keyTakeaways,
\* references, exercises the record defines, whatever the input section had.
C1_TableValuesWritten ==
    \A r \in CompletedRuns :
        \A n \in 1..Len(InputDoc(r).sections) :
            LET s == InputDoc(r).sections[n]
                o == outputs[r].sections[n]
            IN  InTable(s) =>
                    LET meta == SECTION_METADATA[s.id]
                    IN  /\ Has(o, "metadata")
                        /\ Has(o.metadata, "estimatedReadingTime")
                        /\ o.metadata.estimatedReadingTime = meta.estimatedReadingTime
                        /\ Has(o.metadata, "tags")
                        /\ o.metadata.tags = meta.tags
                        /\ \A f \in {"chapterNumber", "partNumber", "keyTakeaways",
                                     "references", "exercises"} :
                               Has(meta, f) => Has(o, f) /\ o[f] = meta[f]

\* A first run left a chapter-2 section whose input had other values for
\* every field the table defines.
C1_Witness ==
    /\ Completed(1)
    /\ \E n \in 1..Len(InputDoc(1).sections) :
           /\ InputDoc(1).sections[n] = Put(FullBody, "id", "chapter-2")
           /\ outputs[1].sections[n].chapterNumber = 2
           /\ outputs[1].sections[n].metadata.estimatedReadingTime = 30
           /\ Len(outputs[1].sections[n].references) = 1

\* C2: for every input section whose id is not in the table, the output
\* section is the input section: the same fields with the same values.
C2_AbsentIdPassesThrough ==
    \A r \in CompletedRuns :
        \A n \in 1..Len(InputDoc(r).sections) :
            LET s == InputDoc(r).sections[n]
            IN  ~ InTable(s) =>
                    /\ n <= Len(outputs[r].sections)
                    /\ DOMAIN outputs[r].sections[n] = DOMAIN s
                    /\ outputs[r].sections[n] = s

\* A first run left sections whose ids are not in the table, one with no
\* metadata and no type, one with a null metadata.
C2_Witness ==
    /\ Completed(1)
    /\ Len(outputs[1].sections) = 2
    /\ InputDoc(1).sections[1] = Put(BareBody, "id", "preface")
    /\ InputDoc(1).sections[2] = Put(NullMetadataBody, "id", "preface")
    /\ ~ Has(outputs[1].sections[1], "metadata")

\* C3: the document a run leaves has the keys version, metadata, settings
\* and sections, and its sections are as many as the input's, the n-th with
\* the id of the input's n-th.
C3_EnvelopeAndOrder ==
    \A r \in CompletedRuns :
        /\ {"version", "metadata", "settings", "sections"} \subseteq DOMAIN outputs[r]
        /\ Len(outputs[r].sections) = Len(InputDoc(r).sections)
        /\ \A n \in 1..Len(InputDoc(r).sections) :
               /\ Has(outputs[r].sections[n], "id")
               /\ outputs[r].sections[n].id = InputDoc(r).sections[n].id

\* A first run left two sections with different ids, the first not in the table.
C3_Witness ==
    /\ Completed(1)
    /\ Len(InputDoc(1).sections) = 2
    /\ outputs[1].sections[1].id = "preface"
    /\ outputs[1].sections[2].id = "chapter-10"

\* C4: a record with chapterNumber and no type gives the type "chapter"; a
\* record with chapterNumber and type gives the record's type; a record with
\* neither leaves the type the input section had, or none.
C4_TypeRule ==
    mpc = "done" =>
        /\ (Has(mMeta, "chapterNumber") /\ ~ Has(mMeta, "type")) =>
               (Has(mOut, "type") /\ mOut.type = "chapter")
        /\ (Has(mMeta, "chapterNumber") /\ Has(mMeta, "type")) =>
               (Has(mOut, "type") /\ mOut.type = mMeta.type)
        /\ (~ Has(mMeta, "chapterNumber") /\ ~ Has(mMeta, "type")) =>
               /\ Has(mOut, "type") <=> Has(mSection, "type")
               /\ Has(mSection, "type") => mOut.type = mSection.type

\* The merge of a record with chapterNumber and type into a section that had
\* another type is done, and the type is the record's.
C4_Witness ==
    /\ mpc = "done"
    /\ Has(mMeta, "chapterNumber")
    /\ Has(mMeta, "type")
    /\ Has(mSection, "type")
    /\ mOut.type = "sidebar"

\* C5: for an input section whose id is in the table, every field other than
\* the seven the merge may write is in the output section with its value, no
\* field is removed, and every key of a metadata it had, other than
\* estimatedReadingTime and tags, keeps its value.
C5_OtherFieldsKept ==
    \A r \in CompletedRuns :
        \A n \in 1..Len(InputDoc(r).sections) :
            LET s == InputDoc(r).sections[n]
                o == outputs[r].sections[n]
            IN  InTable(s) =>
                    /\ DOMAIN s \subseteq DOMAIN o
                    /\ \A f \in DOMAIN s \ OverwrittenFields : o[f] = s[f]
                    /\ Has(s, "metadata") =>
                           \A k \in DOMAIN s.metadata \ {"estimatedReadingTime", "tags"} :
                               Has(o.metadata, k) /\ o.metadata[k] = s.metadata[k]

\* A first run left a glossary section that had a content and a metadata
\* with a key of its own.
C5_Witness ==
    /\ Completed(1)
    /\ \E n \in 1..Len(InputDoc(1).sections) :
           /\ InputDoc(1).sections[n] = Put(FullBody, "id", "glossary")
           /\ outputs[1].sections[n].content = "text"
           /\ outputs[1].sections[n].metadata.difficulty = "green"
           /\ outputs[1].sections[n].metadata.estimatedReadingTime = 15

\* C6: the merge has no error condition: the run never aborts on a section
\* that has an id; and once a section with a table record is processed, the
\* output section has a metadata with the record's reading time and tags.
C6_MergeNeverAborts ==
    /\ (pc = "aborted" /\ i >= 1) => ~ Has(article.sections[i], "id")
    /\ \A n \in 1..(i - 1) :
           InTable(enhanced.sections[n]) =>
               /\ Has(enhanced.sections[n], "metadata")
               /\ Has(enhanced.sections[n].metadata, "estimatedReadingTime")
               /\ Has(enhanced.sections[n].metadata, "tags")

\* C7: a run on the document a completed run left completes and leaves a
\* document equal to it.
C7_SecondRunChangesNothing ==
    \A r \in 2..run :
        Completed(r - 1) =>
            /\ ~ (r = run /\ pc = "aborted")
            /\ Completed(r) => outputs[r] = outputs[r - 1]

\* A second run is done on the output of a first that wrote table values
\* into a section with no metadata and into one that had metadata.
C7_Witness ==
    /\ run = 2
    /\ pc = "done"
    /\ Completed(1)
    /\ Completed(2)
    /\ Len(InputDoc(1).sections) = 2
    /\ InputDoc(1).sections[1] = Put(BareBody, "id", "chapter-2")
    /\ InputDoc(1).sections[2] = Put(FullBody, "id", "glossary")
    /\ InputDoc(2) # InputDoc(1)

\* C8: after the loop every input section, its nested metadata included,
\* has the fields and values it had when it was read.
C8_InputSectionsUntouched ==
    pc \in {"dump", "print", "done"} => article.sections = InputDoc(run).sections

\* C9: article.json is written only after the whole document has been read
\* and every section processed: until then, and when the run aborts, it is
\* as the run found it, and when it differs every section has been processed.
C9_NoWriteBeforeLoopEnds ==
    /\ pc \notin {"dump", "print", "done"} => file = inputs[run]
    /\ pc = "aborted" => file = inputs[run]
    /\ file # inputs[run] =>
           /\ pc \in {"dump", "print", "done"}
           /\ Len(enhanced.sections) = Len(InputDoc(run).sections)

\* A run aborted on its last section, after it had merged a table record
\* into the first, and article.json holds the document it read.
C9_Witness ==
    /\ pc = "aborted"
    /\ i = 2
    /\ Len(article.sections) = 2
    /\ Len(enhanced.sections) = 1
    /\ InTable(enhanced.sections[1])
    /\ Has(article.sections[2], "id")
    /\ file = inputs[run]
    /\ file.valid

EnvelopeKeys == {"title", "version", "metadata", "settings", "sections"}

\* C10: the document a run leaves has exactly the keys title, version,
\* metadata, settings and sections, the input's title and the fixed version,
\* metadata and settings; two runs whose inputs agree on title and sections
\* leave equal documents.
C10_OutputFromTitleAndSections ==
    /\ \A r \in CompletedRuns :
           /\ DOMAIN outputs[r] = EnvelopeKeys
           /\ outputs[r].title = InputDoc(r).title
           /\ outputs[r].version = ENHANCED_VERSION
           /\ outputs[r].metadata = ENHANCED_METADATA
           /\ outputs[r].settings = ENHANCED_SETTINGS
    /\ \A r1 \in CompletedRuns, r2 \in CompletedRuns :
           (/\ InputDoc(r1).title = InputDoc(r2).title
            /\ InputDoc(r1).sections = InputDoc(r2).sections) =>
               outputs[r1] = outputs[r2]

\* Two runs completed on inputs that agree on title and sections and differ
\* in version, metadata and settings, the first with one more field.
C10_Witness ==
    /\ Completed(1)
    /\ run = 2
    /\ Completed(2)
    /\ Has(InputDoc(1), "author")
    /\ InputDoc(1).version # InputDoc(2).version
    /\ InputDoc(1).metadata # InputDoc(2).metadata
    /\ InputDoc(1).title = InputDoc(2).title
    /\ InputDoc(1).sections = InputDoc(2).sections
    /\ Len(InputDoc(1).sections) = 2

====
